---- MODULE Spec2Model ----
(***************************************************************************)
(* Lens-Call-Server: two relay servers that pair Lens Studio ("host")      *)
(* connections with web face trackers.                                     *)
(*                                                                         *)
(*   Relay            src/server.js          (native WebSocket only)       *)
(*   Session manager  src/server/server.js   (WebSocket + Socket.IO)       *)
(*                                                                         *)
(* Node.js runs every handler to completion on one thread, so each handler *)
(* is one atomic action.  JS `undefined`/`null` is the string Null.  Maps  *)
(* are functions whose DOMAIN is the key set.  What a handler sends is an  *)
(* operator of the state it runs in (...Sends); ws.send on a socket that   *)
(* is not OPEN is silently discarded (ws >= 7), so these operators hold    *)
(* only what is transmitted.                                               *)
(***************************************************************************)
EXTENDS Integers, Sequences, FiniteSets, TLC

Null == "null"

(***************************************************************************)
(* Bounded input domains                                                   *)
(***************************************************************************)
\* Number of events in a run that change the server's state: messages whose
\* handler changes the registry or closes a socket, and 'close' events.
\* Messages that change nothing (and so leave the server where it was) and
\* the acceptance of a connection are not counted.
MaxEvents == 5
\* The WebSocket connections the relay accepts in a run, in the order it
\* accepts them.
ConnOrder == <<"w1", "w2", "w3">>
Conns == {ConnOrder[i] : i \in DOMAIN ConnOrder}

\* sessionHash / connectionId values a Lens client may put in a message.
Hashes == {"h1", "h2"}
ConnIds == {"c1", "c2"}
\* The connectionId a Lens client on the connection gives as its own: w1 and
\* w3 are the same client (c1) on two connections, w2 is another client.
ClientId(ws) == IF ws = "w2" THEN "c2" ELSE "c1"

\* Length of a base code and of a full code in the relay.
BaseLen == 6
FullLen == 7

\* The part of the 36^6 code space Math.random is let to draw from.
CodeSpace == {"AAAAAA", "BBBBBB"}
\* sevenCharCode / fullKeycode values a client may put in a message; "AAAAAA"
\* is a code of the wrong length.
Keycodes == {"AAAAAAX", "AAAAAAY"}
BadKeycodes == {"AAAAAA"}

\* JS values of mouthOpenness, numbers in hundredths: 0.0, 0.42, 1.0, 1.5,
\* -0.5 and the string "abc".
Scale == 100
Num(n) == [t |-> "number", n |-> n]
NoValue == [t |-> "undefined", n |-> 0]
Openness == {Num(0), Num(42), Num(Scale), Num(150), Num(-50), [t |-> "string", n |-> 0]}

VARIABLES
    \* ---- Relay (src/server.js)
    readyState,      \* ws.readyState of every connection, "FREE" before it connects
    clientInfo,      \* ws.clientInfo
    sessions,        \* Map sessionHash -> {baseSessionCode, lensClients, userCodeMap}
    webClients,      \* Map sevenCharCode -> ws
    activeBaseCodes, \* Set of reserved base codes
    process,         \* "running", or "exited" after an uncaught exception
    events           \* number of state-changing events so far

relayVars == <<readyState, clientInfo, sessions, webClients, activeBaseCodes, events>>

VARIABLES
    \* ---- Session manager (src/server/server.js)
    smSessions,      \* sessionManager.sessions: Map sessionHash -> SessionData
    sessionOrder,    \* the insertion order of sessionManager.sessions
    userSessions,    \* Map socketId -> sessionHash
    webAppSessions,  \* Map webAppSocketId -> sessionHash
    wsState,         \* ws.readyState of every native WebSocket; in wss.clients iff OPEN or CLOSING
    ioState,         \* whether io.sockets.sockets holds the Socket.IO socket
    now,             \* Date.now()
    sweep            \* the last cleanupInactiveSessions that removed sessions: which, and which it kept

managerState == <<smSessions, sessionOrder, userSessions, webAppSessions>>

\* The two servers are separate processes: a step of one leaves the other's
\* state alone.
relaySide == <<readyState, clientInfo, sessions, webClients, activeBaseCodes, process>>
managerSide ==
    <<smSessions, sessionOrder, userSessions, webAppSessions, wsState, ioState, now, sweep>>

(***************************************************************************)
(* Map helpers                                                             *)
(***************************************************************************)
MapSet(m, k, v) == [x \in DOMAIN m \cup {k} |-> IF x = k THEN v ELSE m[x]]
MapDelete(m, k) == [x \in DOMAIN m \ {k} |-> m[x]]
MapGet(m, k) == IF k \in DOMAIN m THEN m[k] ELSE Null
MapValues(m) == {m[k] : k \in DOMAIN m}
EmptyMap == [x \in {} |-> Null]

(***************************************************************************)
(* Relay: transport                                                        *)
(***************************************************************************)
\* A socket the server called close() on is CLOSING until its 'close' event;
\* the peer may still send on it.  A close started by the peer is taken with
\* its 'close' event, in one step.
Receiving(ws) == readyState[ws] \in {"OPEN", "CLOSING"}
\* The connections a message can arrive on.
Receivers == {ws \in Conns : Receiving(ws)}
Event == events < MaxEvents /\ events' = events + 1

NewClientInfo == [type |-> Null, sessionHash |-> Null, connectionId |-> Null, fullKeycode |-> Null]

\* A message on the wire: `seq` orders the sends of one handler, `code` is the
\* base or full code it carries, `timestamp` says whether it carries Date.now().
Msg(seq, to, type, code, hash, value) ==
    [seq |-> seq, to |-> to, type |-> type, code |-> code, hash |-> hash, value |-> value,
     timestamp |-> (type = "mouth_data")]

\* ws.send(...): transmitted only on an OPEN socket.
Transmit(msgs) == {m \in msgs : readyState[m.to] = "OPEN"}

\* ws.close() on every socket of `set`.
CloseAll(rs, set) == [w \in Conns |-> IF w \in set /\ rs[w] = "OPEN" THEN "CLOSING" ELSE rs[w]]

\* Connections are interchangeable until they are classified or closed: the
\* next one is accepted once the earlier ones are past that point.
Touched(ws) == readyState[ws] \notin {"FREE", "OPEN"} \/ clientInfo[ws].type # Null

\* wss.on('connection')
Connect(ws) ==
    /\ process = "running"
    /\ readyState[ws] = "FREE"
    /\ UNCHANGED <<managerSide, process>>
    /\ \A i \in DOMAIN ConnOrder : ConnOrder[i] = ws => \A j \in 1..(i-1) : Touched(ConnOrder[j])
    /\ readyState' = [readyState EXCEPT ![ws] = "OPEN"]
    /\ clientInfo' = [clientInfo EXCEPT ![ws] = NewClientInfo]
    /\ UNCHANGED <<sessions, webClients, activeBaseCodes, events>>

(***************************************************************************)
(* Relay: code generation                                                  *)
(***************************************************************************)
\* Mutant: the loop does not look at activeBaseCodes.
generateUniqueBaseCode_unchecked == CodeSpace

\* The codes the do-while loop can end on.
generateUniqueBaseCode == {code \in CodeSpace : code \notin activeBaseCodes}

\* The session the for-of loop returns (Null for undefined).
findSessionByBaseCode(baseCode) ==
    {h \in DOMAIN sessions : sessions[h].baseSessionCode = baseCode}

(***************************************************************************)
(* Relay: handlers                                                         *)
(***************************************************************************)
handleHostSessionRequest(ws, sessionHash, connectionId) ==
    /\ Receiving(ws)
    /\ UNCHANGED <<managerSide, process>>
    /\ IF sessionHash = Null \/ connectionId = Null
       THEN UNCHANGED relayVars
       ELSE \E baseSessionCode \in generateUniqueBaseCode :
            /\ activeBaseCodes' = activeBaseCodes \cup {baseSessionCode}
            /\ sessions' = MapSet(sessions, sessionHash,
                                  [baseSessionCode |-> baseSessionCode,
                                   lensClients |-> MapSet(EmptyMap, connectionId, ws),
                                   userCodeMap |-> EmptyMap])
            /\ clientInfo' = [clientInfo EXCEPT ![ws] =
                                  [type |-> "lens_host", sessionHash |-> sessionHash,
                                   connectionId |-> connectionId, fullKeycode |-> Null]]
            /\ Event
            /\ UNCHANGED <<readyState, webClients>>

\* The reply to a session request that drew baseSessionCode.
HostSessionRequestSends(ws, sessionHash, connectionId, baseSessionCode) ==
    IF sessionHash = Null \/ connectionId = Null
    THEN {}
    ELSE Transmit({Msg(1, ws, "lens_studio_session_response", baseSessionCode, sessionHash, NoValue)})

\* Mutant: the connection is classified before the session is looked up.
handleClientJoinRequest_classified(ws, sessionHash, connectionId) ==
    /\ Receiving(ws)
    /\ UNCHANGED <<managerSide, process>>
    /\ clientInfo' = [clientInfo EXCEPT ![ws] =
                          [type |-> "lens_client", sessionHash |-> sessionHash,
                           connectionId |-> connectionId, fullKeycode |-> Null]]
    /\ sessions' = IF sessionHash \notin DOMAIN sessions THEN sessions
                   ELSE [sessions EXCEPT ![sessionHash].lensClients =
                             MapSet(@, connectionId, ws)]
    /\ IF sessions' = sessions /\ clientInfo' = clientInfo THEN UNCHANGED events ELSE Event
    /\ UNCHANGED <<readyState, webClients, activeBaseCodes>>

handleClientJoinRequest(ws, sessionHash, connectionId) ==
    /\ Receiving(ws)
    /\ UNCHANGED <<managerSide, process>>
    /\ IF sessionHash \notin DOMAIN sessions
       THEN UNCHANGED relayVars
       ELSE /\ sessions' = [sessions EXCEPT ![sessionHash].lensClients =
                                MapSet(@, connectionId, ws)]
            /\ clientInfo' = [clientInfo EXCEPT ![ws] =
                                  [type |-> "lens_client", sessionHash |-> sessionHash,
                                   connectionId |-> connectionId, fullKeycode |-> Null]]
            /\ Event
            /\ UNCHANGED <<readyState, webClients, activeBaseCodes>>

ClientJoinRequestSends(ws, sessionHash, connectionId) ==
    IF sessionHash \notin DOMAIN sessions
    THEN Transmit({Msg(1, ws, "error", Null, Null, NoValue)})
    ELSE Transmit({Msg(1, ws, "lens_studio_join_response",
                       sessions[sessionHash].baseSessionCode, sessionHash, NoValue)})

NoMapping == [connectionId |-> Null, fullKeycode |-> Null, present |-> FALSE]
Mapping(connectionId, fullKeycode) ==
    [connectionId |-> connectionId, fullKeycode |-> fullKeycode, present |-> TRUE]

\* Sends nothing.
handleUserKeycodeAssignment(sessionHash, userMapping) ==
    /\ Receivers # {}
    /\ UNCHANGED <<managerSide, process>>
    /\ IF sessionHash \notin DOMAIN sessions \/ ~userMapping.present
          \/ userMapping.connectionId = Null
       THEN UNCHANGED relayVars
       ELSE LET session == sessions[sessionHash]
                lensClientWs == MapGet(session.lensClients, userMapping.connectionId)
            IN /\ sessions' = [sessions EXCEPT ![sessionHash].userCodeMap =
                                   MapSet(@, userMapping.fullKeycode, userMapping.connectionId)]
               /\ clientInfo' = IF lensClientWs # Null
                                THEN [clientInfo EXCEPT ![lensClientWs].fullKeycode =
                                          userMapping.fullKeycode]
                                ELSE clientInfo
               /\ IF sessions' = sessions /\ clientInfo' = clientInfo
                  THEN UNCHANGED events ELSE Event
               /\ UNCHANGED <<readyState, webClients, activeBaseCodes>>

\* Mutant: the code need not be registered in the session's userCodeMap.
WebAppSession_unregistered(sevenCharCode) ==
    IF sevenCharCode = Null \/ Len(sevenCharCode) # FullLen
    THEN Null
    ELSE LET found == findSessionByBaseCode(SubSeq(sevenCharCode, 1, BaseLen))
         IN IF found = {} THEN Null ELSE CHOOSE h \in found : TRUE

\* The session a web_app_connect for the code is attached to: Null when the
\* code is malformed, no session has its base code or the code is not
\* registered there.
WebAppSession(sevenCharCode) ==
    IF sevenCharCode = Null \/ Len(sevenCharCode) # FullLen
    THEN Null
    ELSE LET found == findSessionByBaseCode(SubSeq(sevenCharCode, 1, BaseLen))
         IN IF found = {} \/ \A h \in found : sevenCharCode \notin DOMAIN sessions[h].userCodeMap
            THEN Null
            ELSE CHOOSE h \in found : TRUE

handleWebAppConnection(ws, sevenCharCode) ==
    /\ Receiving(ws)
    /\ UNCHANGED <<managerSide, process>>
    /\ IF WebAppSession(sevenCharCode) = Null
       THEN /\ readyState' = CloseAll(readyState, {ws})
            /\ IF readyState' = readyState THEN UNCHANGED events ELSE Event
            /\ UNCHANGED <<clientInfo, sessions, webClients, activeBaseCodes>>
       ELSE /\ clientInfo' = [clientInfo EXCEPT ![ws] =
                                  [type |-> "web_app", fullKeycode |-> sevenCharCode,
                                   sessionHash |-> WebAppSession(sevenCharCode),
                                   connectionId |-> Null]]
            /\ webClients' = MapSet(webClients, sevenCharCode, ws)
            /\ IF clientInfo' = clientInfo /\ webClients' = webClients
               THEN UNCHANGED events ELSE Event
            /\ UNCHANGED <<readyState, sessions, activeBaseCodes>>

\* Mutant: web_app_connected goes to the host connections of every session.
WebAppConnectionSends_broadcast(ws, sevenCharCode) ==
    IF WebAppSession(sevenCharCode) = Null
    THEN Transmit({Msg(1, ws, "error", Null, Null, NoValue)})
    ELSE Transmit({Msg(1, ws, "connection_successful", Null, Null, NoValue)}
            \cup {Msg(2, clientWs, "web_app_connected", sevenCharCode, Null, NoValue) :
                     clientWs \in UNION {MapValues(sessions[h].lensClients) : h \in DOMAIN sessions}})

WebAppConnectionSends(ws, sevenCharCode) ==
    IF WebAppSession(sevenCharCode) = Null
    THEN Transmit({Msg(1, ws, "error", Null, Null, NoValue)})
    ELSE Transmit({Msg(1, ws, "connection_successful", Null, Null, NoValue)}
            \cup {Msg(2, clientWs, "web_app_connected", sevenCharCode, Null, NoValue) :
                     clientWs \in MapValues(sessions[WebAppSession(sevenCharCode)].lensClients)})

\* Mutant: the owner of the code is not skipped.
MouthDataRecipients_all(session, senderConnectionId) ==
    {session.lensClients[k] : k \in {id \in DOMAIN session.lensClients :
                                        readyState[session.lensClients[id]] = "OPEN"}}

\* The lensClients entries a mouth_data message is sent to.
MouthDataRecipients(session, senderConnectionId) ==
    {session.lensClients[k] : k \in {id \in DOMAIN session.lensClients :
                                        /\ id # senderConnectionId
                                        /\ readyState[session.lensClients[id]] = "OPEN"}}

\* Changes nothing.
handleMouthData(sevenCharCode, mouthOpenness) ==
    /\ Receivers # {}
    /\ UNCHANGED <<managerSide, process>>
    /\ UNCHANGED relayVars

MouthDataSends(sevenCharCode, mouthOpenness) ==
    LET webClientWs == MapGet(webClients, sevenCharCode)
    IN IF webClientWs = Null \/ clientInfo[webClientWs].sessionHash = Null
          \/ clientInfo[webClientWs].sessionHash \notin DOMAIN sessions
       THEN {}
       ELSE LET session == sessions[clientInfo[webClientWs].sessionHash]
                senderConnectionId == MapGet(session.userCodeMap, sevenCharCode)
            IN IF senderConnectionId = Null
               THEN {}
               ELSE {Msg(1, clientWs, "mouth_data", sevenCharCode, Null, mouthOpenness) :
                        clientWs \in MouthDataRecipients(session, senderConnectionId)}

\* case 'mouth_data' of the dispatcher: what is sent when the message arrives
\* on ws.  The handler is called with the message only, not with ws.
DispatchedMouthDataSends(ws, sevenCharCode, mouthOpenness) ==
    IF Receiving(ws) THEN MouthDataSends(sevenCharCode, mouthOpenness) ELSE {}

\* The number of copies of a mouth_data message the forEach loop sends to
\* clientWs: one for every lensClients entry that holds it, is not the
\* owner's entry and is OPEN.
MouthDataCopies(sevenCharCode, clientWs) ==
    LET webClientWs == MapGet(webClients, sevenCharCode)
    IN IF webClientWs = Null \/ clientInfo[webClientWs].sessionHash = Null
          \/ clientInfo[webClientWs].sessionHash \notin DOMAIN sessions
       THEN 0
       ELSE LET session == sessions[clientInfo[webClientWs].sessionHash]
                senderConnectionId == MapGet(session.userCodeMap, sevenCharCode)
            IN IF senderConnectionId = Null
               THEN 0
               ELSE Cardinality({id \in DOMAIN session.lensClients :
                                    /\ id # senderConnectionId
                                    /\ session.lensClients[id] = clientWs
                                    /\ readyState[clientWs] = "OPEN"})

(***************************************************************************)
(* Relay: messages whose parsed value is not of the expected shape         *)
(***************************************************************************)
\* JSON values of a field that are not strings: absent, a number, or an array
\* of `length` elements.
Undefined == [t |-> "undefined", length |-> 0]
Number == [t |-> "number", length |-> 0]
ArrayOf(length) == [t |-> "array", length |-> length]

\* JSON.parse results: a text JSON.parse rejects ("unparsable"), null, a
\* number, or an object with a type and a sevenCharCode field.
Parsed(json, type, sevenCharCode) ==
    [json |-> json, type |-> type, sevenCharCode |-> sevenCharCode]
OddMessages ==
    {Parsed("unparsable", Null, Undefined),
     Parsed("null", Null, Undefined),
     Parsed("number", Null, Undefined),
     Parsed("object", Null, Undefined),
     Parsed("object", "ping", Undefined),
     Parsed("object", "web_app_connect", Number),
     Parsed("object", "web_app_connect", ArrayOf(2)),
     Parsed("object", "web_app_connect", ArrayOf(FullLen))}

\* !sevenCharCode || sevenCharCode.length !== 7; a number has no length.
InvalidCodeFormat(sevenCharCode) ==
    \/ sevenCharCode.t = "undefined"
    \/ sevenCharCode.t = "number"
    \/ sevenCharCode.length # FullLen

\* Mutant: the exception of JSON.parse and the default branch leave the
\* callback as exceptions.
Throws_uncaught(data) ==
    \/ data.json \in {"unparsable", "null"}
    \/ data.type # "web_app_connect"
    \/ ~InvalidCodeFormat(data.sevenCharCode)

\* Whether the message callback throws: data.type of null, and substring of a
\* value that is not a string. The exception of JSON.parse is caught.
Throws(data) ==
    IF data.json = "null" THEN TRUE
    ELSE IF data.json # "object" \/ data.type # "web_app_connect" THEN FALSE
    ELSE ~InvalidCodeFormat(data.sevenCharCode) /\ data.sevenCharCode.t # "string"

\* ws.on('message') for a value of OddMessages. Nothing catches an exception
\* of the callback: the process exits, its registries and sockets are gone.
onMessage(ws, data) ==
    /\ Receiving(ws)
    /\ UNCHANGED managerSide
    /\ IF Throws(data)
       THEN /\ process' = "exited"
            /\ readyState' = [w \in Conns |-> IF readyState[w] = "FREE" THEN "FREE" ELSE "CLOSED"]
            /\ clientInfo' = [w \in Conns |-> NewClientInfo]
            /\ sessions' = EmptyMap
            /\ webClients' = EmptyMap
            /\ activeBaseCodes' = {}
            /\ UNCHANGED events
       ELSE IF data.json = "object" /\ data.type = "web_app_connect"
       THEN /\ readyState' = CloseAll(readyState, {ws})
            /\ IF readyState' = readyState THEN UNCHANGED events ELSE Event
            /\ UNCHANGED <<clientInfo, sessions, webClients, activeBaseCodes, process>>
       ELSE UNCHANGED <<relayVars, process>>

\* What the callback sends for a value of OddMessages.
onMessageSends(ws, data) ==
    IF ~Throws(data) /\ data.json = "object" /\ data.type = "web_app_connect"
    THEN Transmit({Msg(1, ws, "error", Null, Null, NoValue)})
    ELSE {}

\* The webClients entries the host-disconnect loop closes and deletes: the
\* codes of userCodeMap, once the closing connection's own code was deleted.
TeardownCodes(userCodeMap) == DOMAIN userCodeMap \cap DOMAIN webClients

\* Mutant: the closing connection's lensClients entry is kept.
DetachedLensClients_kept(ws) == sessions[clientInfo[ws].sessionHash].lensClients

\* lensClients and userCodeMap once the closing connection's entries are deleted.
DetachedLensClients(ws) ==
    MapDelete(sessions[clientInfo[ws].sessionHash].lensClients, clientInfo[ws].connectionId)
DetachedUserCodeMap(ws) ==
    IF clientInfo[ws].fullKeycode # Null
    THEN MapDelete(sessions[clientInfo[ws].sessionHash].userCodeMap, clientInfo[ws].fullKeycode)
    ELSE sessions[clientInfo[ws].sessionHash].userCodeMap

\* Mutant: the closing web connection's webClients entry is kept.
DetachedWebClients_kept(ws) == webClients

\* webClients once the closing web connection's code is deleted.
DetachedWebClients(ws) == MapDelete(webClients, clientInfo[ws].fullKeycode)

\* ws.on('close')
handleDisconnection(ws) ==
    /\ readyState[ws] \in {"OPEN", "CLOSING"}
    /\ UNCHANGED <<managerSide, process>>
    /\ Event
    /\ LET type == clientInfo[ws].type
           sessionHash == clientInfo[ws].sessionHash
           closed == [readyState EXCEPT ![ws] = "CLOSED"]
       IN CASE type = "web_app" ->
                 /\ webClients' = DetachedWebClients(ws)
                 /\ readyState' = closed
                 /\ UNCHANGED <<clientInfo, sessions, activeBaseCodes>>
            [] type \in {"lens_host", "lens_client"} /\ sessionHash \notin DOMAIN sessions ->
                 /\ readyState' = closed
                 /\ UNCHANGED <<clientInfo, sessions, webClients, activeBaseCodes>>
            [] type = "lens_host" /\ sessionHash \in DOMAIN sessions ->
                 /\ webClients' = [c \in DOMAIN webClients \ TeardownCodes(DetachedUserCodeMap(ws)) |->
                                       webClients[c]]
                 /\ readyState' = CloseAll(closed,
                        {webClients[c] : c \in TeardownCodes(DetachedUserCodeMap(ws))}
                           \cup MapValues(DetachedLensClients(ws)))
                 /\ activeBaseCodes' = activeBaseCodes \ {sessions[sessionHash].baseSessionCode}
                 /\ sessions' = MapDelete(sessions, sessionHash)
                 /\ UNCHANGED clientInfo
            [] type = "lens_client" /\ sessionHash \in DOMAIN sessions ->
                 /\ sessions' = [sessions EXCEPT ![sessionHash] =
                                     [@ EXCEPT !.lensClients = DetachedLensClients(ws),
                                               !.userCodeMap = DetachedUserCodeMap(ws)]]
                 /\ readyState' = closed
                 /\ UNCHANGED <<clientInfo, webClients, activeBaseCodes>>
            [] OTHER ->
                 /\ readyState' = closed
                 /\ UNCHANGED <<clientInfo, sessions, webClients, activeBaseCodes>>

\* What the 'close' handler sends; the closing socket itself is CLOSED.
DisconnectionSends(ws) ==
    LET type == clientInfo[ws].type
        sessionHash == clientInfo[ws].sessionHash
    IN {m \in Transmit(
            IF sessionHash \notin DOMAIN sessions THEN {}
            ELSE IF type = "web_app"
            THEN {Msg(1, clientWs, "web_app_disconnected", clientInfo[ws].fullKeycode, Null, NoValue) :
                     clientWs \in MapValues(sessions[sessionHash].lensClients)}
            ELSE IF type = "lens_host"
            THEN {Msg(1, clientWs, "session_ended", Null, Null, NoValue) :
                     clientWs \in MapValues(DetachedLensClients(ws))}
            ELSE {}) : m.to # ws}

(***************************************************************************)
(* Session manager: bounded input domains                                  *)
(***************************************************************************)
\* Time is counted in hours; Date.now() is the variable `now`.
MaxTime == 3
\* State-changing events of the session manager per run (connections are free).
MaxManagerEvents == 4
maxAge == 2

\* The native WebSocket connections (Lens Studio) and the Socket.IO sockets
\* (web apps), in the order the server accepts them.  ws.socketId (a uuid) and
\* socket.id are the names themselves.
LensOrder == <<"L1", "L2">>
LensSockets == {LensOrder[i] : i \in DOMAIN LensOrder}
IoOrder == <<"S1", "S2">>
IoSockets == {IoOrder[i] : i \in DOMAIN IoOrder}

\* Length of a full keycode and of a base code in the session manager.
KeycodeLen == 7
BaseCodeLen == 6
keycodeChars == "0123456789ABCDEFGHIJKLMNOPQRSTUVWXYZ"

\* message.users: an array of users, or something that is not an array.
User(connectionId, keycodeChar) == [connectionId |-> connectionId, keycodeChar |-> keycodeChar]
Array(items) == [isArray |-> TRUE, items |-> items]
NotAnArray == [isArray |-> FALSE, items |-> <<>>]
UserLists ==
    {Array(<<User("c1", Null)>>),
     Array(<<User("c1", Null), User("c2", Null)>>),
     Array(<<User("c1", "1"), User("c2", Null)>>)}

\* message.userInfo of user_joined_session / user_left_session, or none.
UserInfo(connectionId) == [defined |-> TRUE, connectionId |-> connectionId]
NoUserInfo == [defined |-> FALSE, connectionId |-> Null]
UserInfos == {UserInfo("c2"), NoUserInfo}

\* data.sessionCode of web_app_join_session.
SessionCodes == {"AAAAAA0", "AAAAAA1", "aaaaaa0", "BBBBBB0", "AAAAAA", Null}

(***************************************************************************)
(* Session manager: strings                                                *)
(***************************************************************************)
LowerCase == "abcdefghijklmnopqrstuvwxyz"
UpperCase == "ABCDEFGHIJKLMNOPQRSTUVWXYZ"
Char(s, i) == SubSeq(s, i, i)
UpperChar(c) ==
    IF \E i \in 1..Len(LowerCase) : Char(LowerCase, i) = c
    THEN Char(UpperCase, CHOOSE i \in 1..Len(LowerCase) : Char(LowerCase, i) = c)
    ELSE c
\* String.prototype.toUpperCase
RECURSIVE toUpperCase(_)
toUpperCase(s) ==
    IF Len(s) = 0 THEN "" ELSE UpperChar(Char(s, 1)) \o toUpperCase(SubSeq(s, 2, Len(s)))

(***************************************************************************)
(* Session manager: MultiUserSessionManager                                *)
(***************************************************************************)
\* The codes the do-while loop can end on: `sessions` is keyed by sessionHash.
generateBaseSessionCode == {code \in CodeSpace : code \notin DOMAIN smSessions}

\* users.map(...) of createMultiUserSession; index is 0-based in the source.
userKeycodes(baseCode, users) ==
    [i \in DOMAIN users |->
        LET keycodeChar == IF users[i].keycodeChar # Null
                           THEN users[i].keycodeChar
                           ELSE Char(keycodeChars, i)
        IN [connectionId |-> users[i].connectionId,
            keycodeChar |-> keycodeChar,
            fullKeycode |-> baseCode \o keycodeChar]]

createMultiUserSession(sessionHash, lensStudioSocketId, users, baseCode) ==
    /\ smSessions' = MapSet(smSessions, sessionHash,
                            [sessionHash |-> sessionHash,
                             baseCode |-> baseCode,
                             lensStudioSocket |-> lensStudioSocketId,
                             users |-> userKeycodes(baseCode, users),
                             webAppConnections |-> <<>>,
                             lastActivity |-> now,
                             isActive |-> TRUE])
    /\ sessionOrder' = IF sessionHash \in DOMAIN smSessions
                       THEN sessionOrder
                       ELSE Append(sessionOrder, sessionHash)
    /\ userSessions' = MapSet(userSessions, lensStudioSocketId, sessionHash)
    /\ UNCHANGED webAppSessions

\* userSessions.get(socketId) || webAppSessions.get(socketId)
SocketSessionHash(socketId) ==
    IF MapGet(userSessions, socketId) # Null
    THEN userSessions[socketId]
    ELSE MapGet(webAppSessions, socketId)

\* The hash of the session getSessionBySocket returns, Null for none.
getSessionBySocket(socketId) ==
    IF SocketSessionHash(socketId) \in DOMAIN smSessions THEN SocketSessionHash(socketId) ELSE Null

\* updateActivity(sessionHash): the sessions with lastActivity refreshed.
updateActivity(sessionHash) ==
    IF sessionHash \in DOMAIN smSessions
    THEN [smSessions EXCEPT ![sessionHash].lastActivity = now]
    ELSE smSessions

\* The first unused character of keycodeChars, Null when all are used.
AssignedChar(session) ==
    LET free == {i \in 1..Len(keycodeChars) :
                    \A u \in DOMAIN session.users :
                        session.users[u].keycodeChar # Char(keycodeChars, i)}
    IN IF free = {} THEN Null
       ELSE Char(keycodeChars, CHOOSE i \in free : \A j \in free : i <= j)

\* addUserToSession for a stored session: the sessions afterwards.
addUserToSession(sessionHash, userInfo) ==
    LET session == smSessions[sessionHash]
        assignedChar == AssignedChar(session)
    IN IF assignedChar = Null THEN smSessions
       ELSE [smSessions EXCEPT
                ![sessionHash].users = Append(@, [connectionId |-> userInfo.connectionId,
                                                  keycodeChar |-> assignedChar,
                                                  fullKeycode |-> session.baseCode \o assignedChar]),
                ![sessionHash].lastActivity = now]

\* webAppConnections is a Map fullKeycode -> socketId, kept in insertion order.
HasConnection(session, keycode) ==
    \E i \in DOMAIN session.webAppConnections : session.webAppConnections[i].keycode = keycode
ConnectionSockets(session) ==
    {session.webAppConnections[i].socket : i \in DOMAIN session.webAppConnections}

\* The loop of removeUserFromSession: the first entry of the socket is deleted.
DeleteFirstConnection(webAppConnections, socketId) ==
    LET idx == {i \in DOMAIN webAppConnections : webAppConnections[i].socket = socketId}
    IN IF idx = {} THEN webAppConnections
       ELSE LET first == CHOOSE i \in idx : \A j \in idx : i <= j
            IN SubSeq(webAppConnections, 1, first - 1)
                   \o SubSeq(webAppConnections, first + 1, Len(webAppConnections))

\* The hash of the session removeUserFromSession returns, Null for none.
RemovedFrom(socketId) == getSessionBySocket(socketId)

removeUserFromSession(socketId) ==
    LET sessionHash == RemovedFrom(socketId)
    IN IF sessionHash = Null
       THEN UNCHANGED managerState
       ELSE LET session == smSessions[sessionHash]
                isLens == socketId \in DOMAIN userSessions
                detached == IF isLens
                            THEN [session EXCEPT !.lensStudioSocket = Null]
                            ELSE [session EXCEPT !.webAppConnections =
                                                    DeleteFirstConnection(@, socketId)]
                inactive == detached.lensStudioSocket = Null /\ detached.webAppConnections = <<>>
            IN /\ smSessions' = [smSessions EXCEPT ![sessionHash] =
                                    [detached EXCEPT !.isActive = IF inactive THEN FALSE ELSE @]]
               /\ userSessions' = IF isLens THEN MapDelete(userSessions, socketId) ELSE userSessions
               /\ webAppSessions' = IF isLens THEN webAppSessions
                                    ELSE MapDelete(webAppSessions, socketId)
               /\ UNCHANGED sessionOrder

\* The first session, in insertion order, with the base code; Null for none.
FirstWithBaseCode(baseCode) ==
    LET idx == {i \in DOMAIN sessionOrder : smSessions[sessionOrder[i]].baseCode = baseCode}
    IN IF idx = {} THEN Null
       ELSE sessionOrder[CHOOSE i \in idx : \A j \in idx : i <= j]

JoinFailure(error) == [success |-> FALSE, error |-> error, sessionId |-> Null]
JoinSuccess(sessionHash) == [success |-> TRUE, error |-> Null, sessionId |-> sessionHash]

\* Mutant: webAppConnections.has(keycode) is not looked at.
JoinResult_unchecked(keycode) ==
    IF keycode = Null \/ Len(keycode) # KeycodeLen
    THEN JoinFailure("Invalid keycode format")
    ELSE LET baseCode == SubSeq(keycode, 1, BaseCodeLen)
             userChar == SubSeq(keycode, BaseCodeLen + 1, Len(keycode))
             sessionHash == FirstWithBaseCode(baseCode)
         IN IF sessionHash = Null THEN JoinFailure("Session not found")
            ELSE IF \A u \in DOMAIN smSessions[sessionHash].users :
                        smSessions[sessionHash].users[u].keycodeChar # userChar
                 THEN JoinFailure("User keycode not found")
            ELSE JoinSuccess(sessionHash)

\* What joinSessionWithKeycode (the second definition, which is the one in
\* effect) returns.
JoinResult(keycode) ==
    IF keycode = Null \/ Len(keycode) # KeycodeLen
    THEN JoinFailure("Invalid keycode format")
    ELSE LET baseCode == SubSeq(keycode, 1, BaseCodeLen)
             userChar == SubSeq(keycode, BaseCodeLen + 1, Len(keycode))
             sessionHash == FirstWithBaseCode(baseCode)
         IN IF sessionHash = Null THEN JoinFailure("Session not found")
            ELSE IF \A u \in DOMAIN smSessions[sessionHash].users :
                        smSessions[sessionHash].users[u].keycodeChar # userChar
                 THEN JoinFailure("User keycode not found")
            ELSE IF HasConnection(smSessions[sessionHash], keycode)
                 THEN JoinFailure("Keycode already in use")
            ELSE JoinSuccess(sessionHash)

\* Mutant: a successful join does not touch lastActivity.
joinSessionWithKeycode_stale(keycode, socketId) ==
    LET result == JoinResult(keycode)
    IN IF ~result.success
       THEN UNCHANGED managerState
       ELSE /\ smSessions' = [smSessions EXCEPT
                                 ![result.sessionId].webAppConnections =
                                     Append(@, [keycode |-> keycode, socket |-> socketId])]
            /\ webAppSessions' = MapSet(webAppSessions, socketId, result.sessionId)
            /\ UNCHANGED <<sessionOrder, userSessions>>

joinSessionWithKeycode(keycode, socketId) ==
    LET result == JoinResult(keycode)
    IN IF ~result.success
       THEN UNCHANGED managerState
       ELSE /\ smSessions' = [smSessions EXCEPT
                                 ![result.sessionId].webAppConnections =
                                     Append(@, [keycode |-> keycode, socket |-> socketId]),
                                 ![result.sessionId].lastActivity = now]
            /\ webAppSessions' = MapSet(webAppSessions, socketId, result.sessionId)
            /\ UNCHANGED <<sessionOrder, userSessions>>

\* Mutant: only idle sessions are removed.
Expired_idle(session) == (now - session.lastActivity) > maxAge

\* The condition under which cleanupInactiveSessions removes a session.
Expired(session) == ~session.isActive \/ (now - session.lastActivity) > maxAge

\* The sessions a sweep run now deletes.
SweptSessions == {h \in DOMAIN smSessions : Expired(smSessions[h])}

cleanupInactiveSessions ==
    LET removed == SweptSessions
    IN /\ smSessions' = [h \in DOMAIN smSessions \ removed |-> smSessions[h]]
       /\ sessionOrder' = SelectSeq(sessionOrder, LAMBDA h : h \notin removed)
       /\ userSessions' = [s \in DOMAIN userSessions
                                 \ {smSessions[h].lensStudioSocket : h \in removed}
                             |-> userSessions[s]]
       /\ webAppSessions' = [s \in DOMAIN webAppSessions
                                   \ UNION {ConnectionSockets(smSessions[h]) : h \in removed}
                               |-> webAppSessions[s]]
       /\ sweep' = IF removed = {} THEN sweep
                   ELSE [removed |-> removed, kept |-> DOMAIN smSessions \ removed]

(***************************************************************************)
(* Session manager: transport                                              *)
(***************************************************************************)
\* A message the server emits: `to` is the socket, `about` the Socket.IO socket
\* or user it concerns, `code` the keycode or error text it carries.
Emit(to, type, success, code, about, value) ==
    [to |-> to, type |-> type, success |-> success, code |-> code, about |-> about,
     value |-> value]

\* SessionData has no field `code`, `webAppSocket`: reading them gives undefined.
SessionCodeField(session) == Null
WebAppSocketField(session) == Null

\* Mutant: the state of the native WebSocket is not looked at.
sendToLensStudio_anyState(socketId, eventName, code, about, value) ==
    {Emit(ws, eventName, TRUE, code, about, value) :
        ws \in {w \in LensSockets : w = socketId /\ wsState[w] \in {"OPEN", "CLOSING"}}}
    \cup {Emit(s, eventName, TRUE, code, about, value) :
            s \in {x \in IoSockets : x = socketId /\ ioState[x] = "CONNECTED"}}

\* sendToLensStudio: the native WebSocket of wss.clients with the socketId, if
\* it is OPEN; then the Socket.IO socket with that id, if there is one.
sendToLensStudio(socketId, eventName, code, about, value) ==
    {Emit(ws, eventName, TRUE, code, about, value) :
        ws \in {w \in LensSockets : w = socketId /\ wsState[w] = "OPEN"}}
    \cup {Emit(s, eventName, TRUE, code, about, value) :
            s \in {x \in IoSockets : x = socketId /\ ioState[x] = "CONNECTED"}}

ManagerEvent == events < MaxManagerEvents /\ events' = events + 1

\* Sockets are interchangeable until the registry or a close tells them apart.
LensTouched(ws) ==
    \/ wsState[ws] \notin {"FREE", "OPEN"}
    \/ ws \in DOMAIN userSessions
    \/ \E h \in DOMAIN smSessions : smSessions[h].lensStudioSocket = ws
IoTouched(socket) ==
    \/ ioState[socket] # "FREE" /\ ioState[socket] # "CONNECTED"
    \/ socket \in DOMAIN webAppSessions
    \/ \E h \in DOMAIN smSessions : socket \in ConnectionSockets(smSessions[h])

\* wss.on('connection')
wsConnection(ws) ==
    /\ wsState[ws] = "FREE"
    /\ UNCHANGED relaySide
    /\ \A i \in DOMAIN LensOrder :
          LensOrder[i] = ws => \A j \in 1..(i - 1) : LensTouched(LensOrder[j])
    /\ wsState' = [wsState EXCEPT ![ws] = "OPEN"]
    /\ UNCHANGED <<managerState, ioState, now, sweep, events>>

\* The peer's close frame arrives: the socket is CLOSING until its 'close' event.
wsClosing(ws) ==
    /\ wsState[ws] = "OPEN"
    /\ UNCHANGED relaySide
    /\ ManagerEvent
    /\ wsState' = [wsState EXCEPT ![ws] = "CLOSING"]
    /\ UNCHANGED <<managerState, ioState, now, sweep>>

\* io.on('connection')
ioConnection(socket) ==
    /\ ioState[socket] = "FREE"
    /\ UNCHANGED relaySide
    /\ \A i \in DOMAIN IoOrder :
          IoOrder[i] = socket => \A j \in 1..(i - 1) : IoTouched(IoOrder[j])
    /\ ioState' = [ioState EXCEPT ![socket] = "CONNECTED"]
    /\ UNCHANGED <<managerState, wsState, now, sweep, events>>

\* Date.now() advances: by an hour, by the maximum idle time, or just past it.
Tick ==
    /\ ManagerEvent
    /\ UNCHANGED relaySide
    /\ \E d \in {1, maxAge, maxAge + 1} : now + d <= MaxTime /\ now' = now + d
    /\ UNCHANGED <<managerState, wsState, ioState, sweep>>

(***************************************************************************)
(* Session manager: native WebSocket handlers                              *)
(***************************************************************************)
ValidSessionRequest(sessionHash, users) == sessionHash # Null /\ users.isArray

handleMultiUserSessionRequest(ws, sessionHash, users) ==
    /\ wsState[ws] = "OPEN"
    /\ UNCHANGED relaySide
    /\ IF ValidSessionRequest(sessionHash, users)
       THEN /\ ManagerEvent
            /\ \E baseCode \in generateBaseSessionCode :
                  createMultiUserSession(sessionHash, ws, users.items, baseCode)
       ELSE UNCHANGED <<managerState, events>>
    /\ UNCHANGED <<wsState, ioState, now, sweep>>

\* What the handler sends when createMultiUserSession took baseCode.
MultiUserSessionRequestSends(ws, sessionHash, users, baseCode) ==
    IF wsState[ws] # "OPEN" THEN {}
    ELSE IF ValidSessionRequest(sessionHash, users)
    THEN {Emit(ws, "multi_user_session_created", TRUE, baseCode, sessionHash,
               userKeycodes(baseCode, users.items))}
    ELSE {Emit(ws, "multi_user_session_created", FALSE,
               "Failed to create multi-user session", Null, <<>>)}

\* The Socket.IO sockets of the session's web app connections.
Notified(session) == {s \in ConnectionSockets(session) : ioState[s] = "CONNECTED"}

UserJoins(sessionHash, userInfo) ==
    /\ userInfo.defined
    /\ sessionHash \in DOMAIN smSessions
    /\ AssignedChar(smSessions[sessionHash]) # Null

handleUserJoinedSession(ws, sessionHash, userInfo) ==
    /\ wsState[ws] = "OPEN"
    /\ UNCHANGED relaySide
    /\ IF UserJoins(sessionHash, userInfo)
       THEN /\ ManagerEvent
            /\ smSessions' = addUserToSession(sessionHash, userInfo)
            /\ UNCHANGED <<sessionOrder, userSessions, webAppSessions>>
       ELSE UNCHANGED <<managerState, events>>
    /\ UNCHANGED <<wsState, ioState, now, sweep>>

UserJoinedSessionSends(ws, sessionHash, userInfo) ==
    IF UserJoins(sessionHash, userInfo)
    THEN {Emit(s, "user_joined_session", TRUE,
               smSessions[sessionHash].baseCode \o AssignedChar(smSessions[sessionHash]),
               userInfo.connectionId, sessionHash) : s \in Notified(smSessions[sessionHash])}
    ELSE {}

\* session.users.findIndex(u => u.connectionId === userInfo.connectionId), 0 for -1.
UserIndex(session, connectionId) ==
    LET idx == {i \in DOMAIN session.users : session.users[i].connectionId = connectionId}
    IN IF idx = {} THEN 0 ELSE CHOOSE i \in idx : \A j \in idx : i <= j

UserLeaves(sessionHash, userInfo) ==
    /\ userInfo.defined
    /\ sessionHash \in DOMAIN smSessions
    /\ UserIndex(smSessions[sessionHash], userInfo.connectionId) > 0

handleUserLeftSession(ws, sessionHash, userInfo) ==
    /\ wsState[ws] = "OPEN"
    /\ UNCHANGED relaySide
    /\ IF UserLeaves(sessionHash, userInfo)
       THEN LET users == smSessions[sessionHash].users
                userIndex == UserIndex(smSessions[sessionHash], userInfo.connectionId)
            IN /\ ManagerEvent
               /\ smSessions' = [smSessions EXCEPT ![sessionHash].users =
                                     SubSeq(users, 1, userIndex - 1)
                                         \o SubSeq(users, userIndex + 1, Len(users))]
               /\ UNCHANGED <<sessionOrder, userSessions, webAppSessions>>
       ELSE UNCHANGED <<managerState, events>>
    /\ UNCHANGED <<wsState, ioState, now, sweep>>

UserLeftSessionSends(ws, sessionHash, userInfo) ==
    IF UserLeaves(sessionHash, userInfo)
    THEN {Emit(s, "user_left_session", TRUE, Null, userInfo.connectionId, sessionHash) :
             s \in Notified(smSessions[sessionHash])}
    ELSE {}

\* ws.on('close')
wsClose(ws) ==
    /\ wsState[ws] \in {"OPEN", "CLOSING"}
    /\ UNCHANGED relaySide
    /\ ManagerEvent
    /\ wsState' = [wsState EXCEPT ![ws] = "CLOSED"]
    /\ removeUserFromSession(ws)
    /\ UNCHANGED <<ioState, now, sweep>>

\* io.to(session.webAppSocket).emit('user_disconnected', ...)
wsCloseSends(ws) ==
    IF RemovedFrom(ws) # Null /\ WebAppSocketField(smSessions[RemovedFrom(ws)]) # Null
    THEN {Emit(WebAppSocketField(smSessions[RemovedFrom(ws)]), "user_disconnected", TRUE,
               SessionCodeField(smSessions[RemovedFrom(ws)]), ws, Null)}
    ELSE {}

(***************************************************************************)
(* Session manager: Socket.IO handlers                                     *)
(***************************************************************************)
\* sessionCode.toUpperCase() of every input.
upperCaseCode == [sessionCode \in SessionCodes |-> toUpperCase(sessionCode)]

\* The result web_app_join_session hands to the callback.
WebAppJoinResult(sessionCode) ==
    IF sessionCode = Null THEN JoinFailure("Invalid session code")
    ELSE IF Len(upperCaseCode[sessionCode]) # KeycodeLen
         THEN JoinFailure("Invalid keycode format. Expected 7-character keycode (e.g., ABC123A)")
    ELSE JoinResult(upperCaseCode[sessionCode])

web_app_join_session(socket, sessionCode) ==
    /\ ioState[socket] = "CONNECTED"
    /\ UNCHANGED relaySide
    /\ IF WebAppJoinResult(sessionCode).success
       THEN /\ ManagerEvent
            /\ joinSessionWithKeycode(upperCaseCode[sessionCode], socket)
       ELSE UNCHANGED <<managerState, events>>
    /\ UNCHANGED <<wsState, ioState, now, sweep>>

WebAppJoinSessionSends(socket, sessionCode) ==
    LET result == WebAppJoinResult(sessionCode)
    IN {Emit(socket, "callback", result.success, result.error, socket, result.sessionId)}
       \cup IF result.success /\ smSessions[result.sessionId].lensStudioSocket # Null
            THEN sendToLensStudio(smSessions[result.sessionId].lensStudioSocket,
                                  "web_app_connected", upperCaseCode[sessionCode], socket, Null)
            ELSE {}

\* typeof data.mouthOpenness === 'number' && 0 <= data.mouthOpenness <= 1
ValidMouthOpenness(mouthOpenness) ==
    mouthOpenness.t = "number" /\ ~(mouthOpenness.n < 0) /\ ~(mouthOpenness.n > Scale)

\* The checks of the mouth_data handler before it forwards.
MouthDataAccepted(socket, mouthOpenness) ==
    /\ getSessionBySocket(socket) # Null
    /\ smSessions[getSessionBySocket(socket)].lensStudioSocket # Null
    /\ ValidMouthOpenness(mouthOpenness)

\* sessionManager.sessions once the handler has run.
MouthDataSessions(socket, mouthOpenness) ==
    IF MouthDataAccepted(socket, mouthOpenness)
    THEN updateActivity(SessionCodeField(smSessions[getSessionBySocket(socket)]))
    ELSE smSessions

mouth_data(socket, mouthOpenness) ==
    /\ ioState[socket] = "CONNECTED"
    /\ UNCHANGED relaySide
    /\ smSessions' = MouthDataSessions(socket, mouthOpenness)
    /\ IF smSessions' # smSessions THEN ManagerEvent ELSE UNCHANGED events
    /\ UNCHANGED <<sessionOrder, userSessions, webAppSessions, wsState, ioState, now, sweep>>

SocketMouthDataSends(socket, mouthOpenness) ==
    IF MouthDataAccepted(socket, mouthOpenness)
    THEN sendToLensStudio(smSessions[getSessionBySocket(socket)].lensStudioSocket,
                          "mouth_data", SessionCodeField(smSessions[getSessionBySocket(socket)]),
                          socket, mouthOpenness)
    ELSE {}

\* socket.on('disconnect')
disconnect(socket) ==
    /\ ioState[socket] = "CONNECTED"
    /\ UNCHANGED relaySide
    /\ ManagerEvent
    /\ ioState' = [ioState EXCEPT ![socket] = "DISCONNECTED"]
    /\ removeUserFromSession(socket)
    /\ UNCHANGED <<wsState, now, sweep>>

disconnectSends(socket) ==
    IF RemovedFrom(socket) = Null THEN {}
    ELSE LET session == smSessions[RemovedFrom(socket)]
             lensStudioSocket == IF socket \in DOMAIN userSessions
                                 THEN Null ELSE session.lensStudioSocket
             otherSocketId == IF lensStudioSocket = socket
                              THEN WebAppSocketField(session) ELSE lensStudioSocket
         IN IF otherSocketId = Null THEN {}
            ELSE sendToLensStudio(otherSocketId, "user_disconnected",
                                  SessionCodeField(session), socket, Null)

\* The 60-second timer of the constructor.
cleanupTimer ==
    /\ cleanupInactiveSessions
    /\ UNCHANGED relaySide
    /\ IF sweep' # sweep \/ smSessions' # smSessions THEN ManagerEvent ELSE UNCHANGED events
    /\ UNCHANGED <<wsState, ioState, now>>

(***************************************************************************)
(* Session manager: specification                                          *)
(***************************************************************************)
ManagerNext ==
    \/ \E ws \in LensSockets : wsConnection(ws)
    \/ \E ws \in LensSockets : wsClosing(ws)
    \/ \E ws \in LensSockets : wsClose(ws)
    \/ \E socket \in IoSockets : ioConnection(socket)
    \/ Tick
    \/ \E ws \in LensSockets, sessionHash \in Hashes \cup {Null}, users \in UserLists \cup {NotAnArray} :
          handleMultiUserSessionRequest(ws, sessionHash, users)
    \/ \E ws \in LensSockets, sessionHash \in Hashes, userInfo \in UserInfos :
          handleUserJoinedSession(ws, sessionHash, userInfo)
    \/ \E ws \in LensSockets, sessionHash \in Hashes, userInfo \in UserInfos :
          handleUserLeftSession(ws, sessionHash, userInfo)
    \/ \E socket \in IoSockets, sessionCode \in SessionCodes :
          web_app_join_session(socket, sessionCode)
    \/ \E socket \in IoSockets, mouthOpenness \in Openness : mouth_data(socket, mouthOpenness)
    \/ \E socket \in IoSockets : disconnect(socket)
    \/ cleanupTimer

(***************************************************************************)
(* Relay: specification                                                    *)
(***************************************************************************)
\* The connectionId values a lens_studio_join_session carries: the
\* connection's own id, and from the last connection also none.
JoinIds(ws) == {ClientId(ws)} \cup (IF ws = ConnOrder[Len(ConnOrder)] THEN {Null} ELSE {})

\* The userMapping values a user_keycode_assigned carries: none, a mapping
\* with or without connectionId, and one without fullKeycode.
UserMappings ==
    {NoMapping, Mapping("c2", Null)}
        \cup {Mapping(c, k) : c \in ConnIds \cup {Null}, k \in Keycodes}

RelayNext ==
    \/ \E ws \in Conns : Connect(ws)
    \/ \E ws \in Conns : handleDisconnection(ws)
    \/ \E ws \in Conns, h \in Hashes \cup {Null} : \E c \in {ClientId(ws), Null} :
          handleHostSessionRequest(ws, h, c)
    \/ \E ws \in Conns, h \in Hashes \cup {Null} : \E c \in JoinIds(ws) :
          handleClientJoinRequest(ws, h, c)
    \/ \E h \in Hashes \cup {Null}, um \in UserMappings : handleUserKeycodeAssignment(h, um)
    \/ \E ws \in Conns, k \in Keycodes \cup BadKeycodes \cup {Null} : handleWebAppConnection(ws, k)
    \/ \E k \in Keycodes, v \in Openness : handleMouthData(k, v)
    \/ \E ws \in Conns, data \in OddMessages : onMessage(ws, data)

(***************************************************************************)
(* Specifications: each server runs as a process of its own                *)
(***************************************************************************)
vars ==
    <<readyState, clientInfo, sessions, webClients, activeBaseCodes, process, events,
      smSessions, sessionOrder, userSessions, webAppSessions, wsState, ioState, now, sweep>>

\* Both servers just started: no connection, empty registries.
Init ==
    /\ readyState = [w \in Conns |-> "FREE"]
    /\ clientInfo = [w \in Conns |-> NewClientInfo]
    /\ sessions = EmptyMap
    /\ webClients = EmptyMap
    /\ activeBaseCodes = {}
    /\ process = "running"
    /\ events = 0
    /\ smSessions = EmptyMap
    /\ sessionOrder = <<>>
    /\ userSessions = EmptyMap
    /\ webAppSessions = EmptyMap
    /\ wsState = [ws \in LensSockets |-> "FREE"]
    /\ ioState = [s \in IoSockets |-> "FREE"]
    /\ now = 0
    /\ sweep = [removed |-> {}, kept |-> {}]

\* The relay; the session manager is not running.
Spec == Init /\ [][RelayNext]_vars

\* The session manager; the relay is not running.
ManagerSpec == Init /\ [][ManagerNext]_vars

(***************************************************************************)
(* Relay: claims                                                           *)
(***************************************************************************)
\* The web connection attached to the code: it is webClients[code] and was
\* classified by a successful web_app_connect for that code.
Attached(web, code) ==
    /\ MapGet(webClients, code) = web
    /\ clientInfo[web].type = "web_app"
    /\ clientInfo[web].fullKeycode = code

\* The host-side connections attached to the session under other connection
\* ids than `connectionId`.
OtherHosts(session, connectionId) ==
    {session.lensClients[id] : id \in DOMAIN session.lensClients \ {connectionId}}

\* C1: when a web connection asks for a code that another, still open, web
\* connection is attached to, it gets no connection_successful and the first
\* claimant stays webClients[code].
C1_SecondClaimRejected ==
    [][\A ws \in Conns, code \in Keycodes :
          (/\ handleWebAppConnection(ws, code)
           /\ \E first \in Conns \ {ws} : Attached(first, code) /\ readyState[first] = "OPEN")
          => /\ webClients'[code] = webClients[code]
             /\ \A m \in WebAppConnectionSends(ws, code) : m.type = "error"]_vars

\* C2: when the host that created a session closes and is the only host-side
\* connection attached, the session and its base code are released and every
\* web connection attached to a registered code of the session is closed and
\* removed from webClients.
C2_SoleHostCloseEvictsWebClients ==
    [][\A ws \in Conns :
          LET h == clientInfo[ws].sessionHash
          IN (/\ handleDisconnection(ws)
              /\ clientInfo[ws].type = "lens_host"
              /\ h \in DOMAIN sessions
              /\ MapGet(sessions[h].lensClients, clientInfo[ws].connectionId) = ws
              /\ OtherHosts(sessions[h], clientInfo[ws].connectionId) = {})
             => /\ h \notin DOMAIN sessions'
                /\ sessions[h].baseSessionCode \notin activeBaseCodes'
                /\ \A code \in DOMAIN sessions[h].userCodeMap, web \in Conns :
                      (Attached(web, code) /\ clientInfo[web].sessionHash = h)
                      => code \notin DOMAIN webClients' /\ readyState'[web] # "OPEN"]_vars

\* The case of C3: a session with the single host connection h1, open, that
\* owns the registered code, which a web connection is attached to.
SingleOwnerHost(h, code, h1) ==
    /\ h \in DOMAIN sessions
    /\ code \in DOMAIN sessions[h].userCodeMap
    /\ sessions[h].lensClients = MapSet(EmptyMap, sessions[h].userCodeMap[code], h1)
    /\ readyState[h1] = "OPEN"
    /\ \E web \in Conns : Attached(web, code) /\ clientInfo[web].sessionHash = h

C5_UniqueBaseCodes ==
    \A h1, h2 \in DOMAIN sessions :
        h1 # h2 => sessions[h1].baseSessionCode # sessions[h2].baseSessionCode

\* Two sessions are live, the second created after a host disconnect had
\* released a base code.
C5_Witness ==
    /\ Cardinality(DOMAIN sessions) = 2
    /\ \E ws \in Conns : readyState[ws] = "CLOSED" /\ clientInfo[ws].type = "lens_host"

\* C6: a session request whose sessionHash maps to a live session changes
\* neither that session nor activeBaseCodes nor webClients.
C6_DuplicateHashRejected ==
    [][\A ws \in Conns, h \in Hashes :
          (handleHostSessionRequest(ws, h, ClientId(ws)) /\ h \in DOMAIN sessions)
          => /\ h \in DOMAIN sessions' /\ sessions'[h] = sessions[h]
             /\ activeBaseCodes' = activeBaseCodes
             /\ webClients' = webClients]_vars

\* mouthOpenness is a number between 0 and 1, bounds included.
ValidOpenness(v) == v.t = "number" /\ v.n >= 0 /\ v.n <= Scale

\* C7: a mouth_data message whose mouthOpenness is not a number between 0 and
\* 1 is forwarded to no host connection.
C7_InvalidOpennessDropped ==
    \A code \in Keycodes, v \in Openness :
        ~ValidOpenness(v) => MouthDataSends(code, v) = {}

WebCodes == Keycodes \cup BadKeycodes \cup {Null}

\* The code is not 7 characters long, or its 6-character prefix is the base
\* code of no live session, or it is not registered in that session.
InvalidCode(code) ==
    \/ code = Null
    \/ Len(code) # FullLen
    \/ \A h \in DOMAIN sessions :
          \/ sessions[h].baseSessionCode # SubSeq(code, 1, BaseLen)
          \/ code \notin DOMAIN sessions[h].userCodeMap

\* C11: a web_app_connect with an invalid code, arriving on an open
\* connection, is answered with one error message, the connection is then
\* closed, and neither webClients nor any clientInfo changes.
C11_InvalidCodeRejected ==
    \A ws \in Conns, code \in WebCodes :
        (readyState[ws] = "OPEN" /\ InvalidCode(code))
        => /\ WebAppConnectionSends(ws, code) = {Msg(1, ws, "error", Null, Null, NoValue)}
           /\ ~ENABLED (/\ handleWebAppConnection(ws, code)
                        /\ ~(/\ readyState'[ws] = "CLOSING"
                             /\ webClients' = webClients
                             /\ clientInfo' = clientInfo
                             /\ sessions' = sessions))

\* An unclassified connection was closed by the server while a session with a
\* registered code is live: it asked for a code that is not that one.
C11_Witness ==
    \E ws \in Conns :
        /\ readyState[ws] = "CLOSING"
        /\ clientInfo[ws].type = Null
        /\ ws \notin MapValues(webClients)
        /\ \E h \in DOMAIN sessions : DOMAIN sessions[h].userCodeMap # {}

\* C12: a connection is the value of at most one webClients entry.
C12_OneCodePerWebConnection ==
    \A c1, c2 \in DOMAIN webClients : webClients[c1] = webClients[c2] => c1 = c2

\* A connection that is unclassified or attached nowhere in the registry.
Detached(ws) ==
    \/ clientInfo[ws].type = Null
    \/ /\ ws \notin MapValues(webClients)
       /\ \A h \in DOMAIN sessions : ws \notin MapValues(sessions[h].lensClients)

\* C13: a close event on an unclassified connection, or on one that is no
\* longer attached anywhere in the registry, changes no registry state and
\* sends no message.
C13_DetachedCloseIsNoOp ==
    [][\A ws \in Conns :
          (readyState[ws] \in {"OPEN", "CLOSING"} /\ Detached(ws) /\ handleDisconnection(ws))
          => /\ webClients' = webClients
             /\ sessions' = sessions
             /\ activeBaseCodes' = activeBaseCodes
             /\ DisconnectionSends(ws) = {}]_vars

\* The session or the host connection a user_keycode_assigned names is unknown.
UnknownTarget(sessionHash, connectionId) ==
    IF sessionHash \notin DOMAIN sessions THEN TRUE
    ELSE connectionId \notin DOMAIN sessions[sessionHash].lensClients

\* C14: a user_keycode_assigned whose sessionHash is unknown, or whose
\* connectionId is not a key of the session's lensClients, changes neither
\* userCodeMap nor any connection's clientInfo.
C14_UnknownTargetIsNoOp ==
    [][\A h \in Hashes \cup {Null}, c \in ConnIds, k \in Keycodes :
          (UnknownTarget(h, c) /\ handleUserKeycodeAssignment(h, Mapping(c, k)))
          => /\ sessions' = sessions
             /\ clientInfo' = clientInfo]_vars

\* C15: a full code registered in a live session's userCodeMap stays
\* registered there, mapped to the same host connection id, for as long as
\* that session exists.
C15_RegisteredCodeStable ==
    [][\A h \in DOMAIN sessions :
          (/\ h \in DOMAIN sessions'
           /\ sessions'[h].baseSessionCode = sessions[h].baseSessionCode)
          => \A k \in DOMAIN sessions[h].userCodeMap :
                /\ k \in DOMAIN sessions'[h].userCodeMap
                /\ sessions'[h].userCodeMap[k] = sessions[h].userCodeMap[k]]_vars

\* C18: when an attached web connection closes, the registration of its code
\* in userCodeMap is left as it was (same owner), the code is no longer a key
\* of webClients, every open host connection of its session is sent
\* web_app_disconnected with the code, and a code that was registered is
\* accepted again by a web_app_connect.
C18_WebCloseFreesSlot ==
    [][\A ws \in Conns, code \in Keycodes :
          (/\ readyState[ws] \in {"OPEN", "CLOSING"}
           /\ Attached(ws, code)
           /\ handleDisconnection(ws))
          => LET h == clientInfo[ws].sessionHash
             IN /\ sessions' = sessions
                /\ code \notin DOMAIN webClients'
                /\ h \in DOMAIN sessions
                   => \A clientWs \in MapValues(sessions[h].lensClients) \ {ws} :
                         readyState[clientWs] = "OPEN"
                         => Msg(1, clientWs, "web_app_disconnected", code, Null, NoValue)
                               \in DisconnectionSends(ws)
                /\ WebAppSession(code) # Null
                   => WebAppSession(code)' = WebAppSession(code)]_vars

C18_Witness ==
    \E ws \in Conns, code \in Keycodes :
        /\ readyState[ws] = "CLOSED"
        /\ clientInfo[ws].type = "web_app"
        /\ clientInfo[ws].fullKeycode = code
        /\ code \notin DOMAIN webClients
        /\ WebAppSession(code) = clientInfo[ws].sessionHash
        /\ \E clientWs \in MapValues(sessions[clientInfo[ws].sessionHash].lensClients) :
              readyState[clientWs] = "OPEN"

\* C19: no inbound message, whatever its parsed JSON value, makes the message
\* callback throw: the server process keeps running.
C19_ProcessKeepsRunning == process = "running"

\* A step that changes none of the registries.
RegistryUnchanged ==
    /\ sessions' = sessions
    /\ webClients' = webClients
    /\ activeBaseCodes' = activeBaseCodes

\* C20: a lens_studio_request_session, lens_studio_join_session or
\* user_keycode_assigned message that lacks sessionHash, connectionId,
\* userMapping.connectionId or userMapping.fullKeycode leaves sessions (with
\* every lensClients and userCodeMap), webClients and activeBaseCodes unchanged.
C20_MissingFieldIsNoOp ==
    [][/\ \A ws \in Conns, h \in Hashes \cup {Null}, c \in ConnIds \cup {Null} :
             ((h = Null \/ c = Null) /\ handleHostSessionRequest(ws, h, c))
             => RegistryUnchanged
       /\ \A ws \in Conns, h \in Hashes \cup {Null}, c \in ConnIds \cup {Null} :
             ((h = Null \/ c = Null) /\ handleClientJoinRequest(ws, h, c))
             => RegistryUnchanged
       /\ \A h \in Hashes \cup {Null}, um \in UserMappings :
             ((\/ h = Null
               \/ ~um.present
               \/ um.connectionId = Null
               \/ um.fullKeycode = Null) /\ handleUserKeycodeAssignment(h, um))
             => RegistryUnchanged]_vars

\* Messages that fail JSON parsing, or parse to an object whose type is
\* none of the five handled types.
DroppedMessages ==
    {data \in OddMessages :
        \/ data.json = "unparsable"
        \/ data.json = "object" /\ data.type \notin
              {"lens_studio_request_session", "lens_studio_join_session",
               "user_keycode_assigned", "web_app_connect", "mouth_data"}}

\* C21: a message that fails JSON parsing, or that parses to an object whose
\* type is none of the five handled types, changes nothing in sessions,
\* webClients, activeBaseCodes or any clientInfo, causes no message to be
\* sent, and leaves the connection open.
C21_DroppedMessageIsNoOp ==
    \A ws \in Receivers, data \in DroppedMessages :
        /\ onMessageSends(ws, data) = {}
        /\ ~ENABLED (/\ onMessage(ws, data)
                     /\ <<sessions, webClients, activeBaseCodes, clientInfo, readyState, process>>'
                           # <<sessions, webClients, activeBaseCodes, clientInfo, readyState, process>>)

\* A message can arrive on an open, attached web connection while a session
\* with a registered code is live: there is state a dropped message could touch.
C21_Witness ==
    \E ws \in Receivers, code \in Keycodes :
        /\ readyState[ws] = "OPEN"
        /\ Attached(ws, code)
        /\ DroppedMessages # {}
        /\ \E h \in DOMAIN sessions : code \in DOMAIN sessions[h].userCodeMap

\* C22: a lens_studio_join_session for an existing sessionHash adds the
\* connection to that session's lensClients and replies with that session's
\* base code; for an unknown sessionHash it replies with an error, leaves the
\* connection open and its classification as it was, and changes no registry
\* state.
C22_JoinExistingOrError ==
    \A ws \in Conns, h \in Hashes \cup {Null} : \A c \in JoinIds(ws) :
        readyState[ws] = "OPEN"
        => IF h \in DOMAIN sessions
           THEN /\ ClientJoinRequestSends(ws, h, c)
                      = {Msg(1, ws, "lens_studio_join_response",
                             sessions[h].baseSessionCode, h, NoValue)}
                /\ ~ENABLED (/\ handleClientJoinRequest(ws, h, c)
                             /\ ~(/\ DOMAIN sessions' = DOMAIN sessions
                                  /\ MapGet(sessions'[h].lensClients, c) = ws
                                  /\ sessions'[h].baseSessionCode = sessions[h].baseSessionCode
                                  /\ clientInfo'[ws].type = "lens_client"
                                  /\ readyState' = readyState))
           ELSE /\ ClientJoinRequestSends(ws, h, c) = {Msg(1, ws, "error", Null, Null, NoValue)}
                /\ ~ENABLED (/\ handleClientJoinRequest(ws, h, c)
                             /\ <<sessions, webClients, activeBaseCodes, clientInfo, readyState>>'
                                   # <<sessions, webClients, activeBaseCodes, clientInfo, readyState>>)

\* One connection has joined a live session next to its host, and another
\* open connection is still unclassified while only that session exists.
C22_Witness ==
    \E ws, other \in Conns, h \in DOMAIN sessions :
        /\ clientInfo[ws].type = "lens_client"
        /\ clientInfo[ws].sessionHash = h
        /\ MapGet(sessions[h].lensClients, clientInfo[ws].connectionId) = ws
        /\ \E id \in DOMAIN sessions[h].lensClients : sessions[h].lensClients[id] # ws
        /\ readyState[other] = "OPEN" /\ clientInfo[other].type = Null
        /\ Hashes \ DOMAIN sessions # {}

\* C23: a mouth_data message is only delivered to host connections attached
\* to the session whose base code is the first 6 characters of its
\* sevenCharCode.
C23_TelemetryStaysInSession ==
    \A code \in Keycodes, v \in Openness :
        \A m \in MouthDataSends(code, v) :
            \E h \in DOMAIN sessions :
                /\ sessions[h].baseSessionCode = SubSeq(code, 1, BaseLen)
                /\ m.to \in MapValues(sessions[h].lensClients)

\* C26: once a connection's clientInfo.type is non-null, no later message
\* changes its type, sessionHash or connectionId.
C26_ClassifiedOnce ==
    [][\A ws \in Conns :
          (clientInfo[ws].type # Null /\ process' = "running")
          => /\ clientInfo'[ws].type = clientInfo[ws].type
             /\ clientInfo'[ws].sessionHash = clientInfo[ws].sessionHash
             /\ clientInfo'[ws].connectionId = clientInfo[ws].connectionId]_vars

\* C27: for a forwarded mouth_data message for code c, each host connection
\* of the session that is OPEN and whose connection id differs from
\* userCodeMap[c] receives exactly one copy, the connection with id
\* userCodeMap[c] receives none, and a host connection that is not OPEN is
\* skipped.
C27_OneCopyPerOtherHost ==
    \A h \in DOMAIN sessions, code \in Keycodes :
        (/\ code \in DOMAIN sessions[h].userCodeMap
         /\ \E web \in Conns : Attached(web, code) /\ clientInfo[web].sessionHash = h)
        => LET owner == sessions[h].userCodeMap[code]
           IN \A id \in DOMAIN sessions[h].lensClients :
                 LET clientWs == sessions[h].lensClients[id]
                 IN MouthDataCopies(code, clientWs)
                       = IF id # owner /\ readyState[clientWs] = "OPEN" THEN 1 ELSE 0

\* The base codes of the live sessions.
LiveBaseCodes == {sessions[h].baseSessionCode : h \in DOMAIN sessions}

C30_ConnectNotifiesOwnSession ==
    \A ws \in Conns, code \in Keycodes :
        (readyState[ws] = "OPEN" /\ WebAppSession(code) # Null)
        => LET h == WebAppSession(code)
               sends == WebAppConnectionSends(ws, code)
           IN /\ sessions[h].baseSessionCode = SubSeq(code, 1, BaseLen)
              /\ {m \in sends : m.seq = 1}
                    = {Msg(1, ws, "connection_successful", Null, Null, NoValue)}
              /\ {m \in sends : m.seq # 1}
                    = {Msg(2, clientWs, "web_app_connected", code, Null, NoValue) :
                          clientWs \in {c \in MapValues(sessions[h].lensClients) :
                                           readyState[c] = "OPEN"}}

\* A web_app_connect would succeed while two sessions are live, each with an
\* open host of its own.
C30_Witness ==
    \E ws \in Conns, code \in Keycodes :
        /\ readyState[ws] = "OPEN" /\ clientInfo[ws].type = Null
        /\ WebAppSession(code) # Null
        /\ \E c \in MapValues(sessions[WebAppSession(code)].lensClients) : readyState[c] = "OPEN"
        /\ \E g \in DOMAIN sessions \ {WebAppSession(code)} :
              \E c \in MapValues(sessions[g].lensClients) :
                 /\ readyState[c] = "OPEN"
                 /\ c \notin MapValues(sessions[WebAppSession(code)].lensClients)


\* C31: activeBaseCodes is exactly the set of baseSessionCode values of the
\* sessions in `sessions`: no code stays reserved after the session that held
\* it is gone.
C31_ReservedCodesAreLive == activeBaseCodes = LiveBaseCodes


\* The session the code belongs to is stored under the hash the web
\* connection carries.
SessionLive(web, code, registry) ==
    /\ clientInfo[web].sessionHash \in DOMAIN registry
    /\ registry[clientInfo[web].sessionHash].baseSessionCode = SubSeq(code, 1, BaseLen)

\* C32: a web connection that received connection_successful for code c and
\* has not closed stays webClients[c] for as long as its session is live: no
\* action of another connection detaches it.
C32_AttachedWebStaysAttached ==
    [][\A web \in Conns, code \in Keycodes :
          (/\ Attached(web, code)
           /\ readyState[web] = "OPEN" /\ readyState'[web] = "OPEN"
           /\ SessionLive(web, code, sessions) /\ SessionLive(web, code, sessions')
           /\ process' = "running")
          => MapGet(webClients', code) = web]_vars


\* The connection is in the session's lensClients under its own connection id.
AttachedHost(ws, session) ==
    MapGet(session.lensClients, clientInfo[ws].connectionId) = ws

\* C33: a session is torn down only by the close of a connection that is
\* attached to it; the close of a connection that merely carries the same
\* sessionHash never deletes the session.
C33_TeardownByAttachedOnly ==
    [][\A h \in DOMAIN sessions :
          (h \notin DOMAIN sessions' /\ process' = "running")
          => \E ws \in Conns : handleDisconnection(ws) /\ AttachedHost(ws, sessions[h])]_vars


\* C34: every stored session has at least one attached host-side connection
\* that has not closed and whose clientInfo refers to that session.
C34_SessionHasLiveHost ==
    \A h \in DOMAIN sessions :
        \E ws \in Conns :
            /\ Receiving(ws)
            /\ ws \in MapValues(sessions[h].lensClients)
            /\ clientInfo[ws].type \in {"lens_host", "lens_client"}
            /\ clientInfo[ws].sessionHash = h


\* C35: a mouth_data message for code c is forwarded only when it arrives on
\* the connection that is webClients[c]; arriving on any other connection it
\* is dropped.
C35_ForwardedOnlyFromAttached ==
    \A ws \in Conns, code \in Keycodes, v \in Openness :
        MapGet(webClients, code) # ws => DispatchedMouthDataSends(ws, code, v) = {}

(***************************************************************************)
(* Session manager: claims                                                 *)
(***************************************************************************)
\* C4: no two stored sessions have the same baseCode, and
\* generateBaseSessionCode returns no base code that a stored session uses.
C4_ManagerUniqueBaseCodes ==
    /\ \A h1, h2 \in DOMAIN smSessions :
          h1 # h2 => smSessions[h1].baseCode # smSessions[h2].baseCode
    /\ \A code \in generateBaseSessionCode, h \in DOMAIN smSessions :
          smSessions[h].baseCode # code

\* The Socket.IO sockets a mouth_data message can arrive on.
Connected == {socket \in IoSockets : ioState[socket] = "CONNECTED"}

\* The socket maps to a stored session that has a Lens Studio socket.
HasLensStudio(socket) ==
    /\ getSessionBySocket(socket) # Null
    /\ smSessions[getSessionBySocket(socket)].lensStudioSocket # Null

Idle(session) == (now - session.lastActivity) > maxAge

\* C9 as claimed: a sweep removes every stored session idle for more than
\* two hours and keeps every stored session whose lastActivity is within the
\* window.
C9_SweepRemovesOnlyIdle ==
    \A h \in DOMAIN smSessions :
        /\ Idle(smSessions[h]) => h \in SweptSessions
        /\ ~Idle(smSessions[h]) => h \notin SweptSessions

\* C9 as amended: a sweep removes every stored session that is idle for more
\* than two hours or marked inactive, and keeps every stored session that is
\* active and whose lastActivity is within the window.
C9_SweepRemovesIdleOrInactive ==
    \A h \in DOMAIN smSessions :
        /\ Idle(smSessions[h]) => h \in SweptSessions
        /\ ~smSessions[h].isActive => h \in SweptSessions
        /\ (smSessions[h].isActive /\ ~Idle(smSessions[h])) => h \notin SweptSessions

\* A sweep has removed a session and kept another, with no socket closed so
\* far: the one removed was idle, the one kept is active and in the window.
C9_Witness ==
    /\ sweep.removed # {}
    /\ \E h \in sweep.kept :
          h \in DOMAIN smSessions /\ smSessions[h].isActive /\ ~Idle(smSessions[h])
    /\ \A ws \in LensSockets : wsState[ws] \in {"FREE", "OPEN"}
    /\ \A socket \in IoSockets : ioState[socket] \in {"FREE", "CONNECTED"}

\* C16: within one stored session no two entries of session.users have
\* the same fullKeycode.
C16_UniqueFullKeycodes ==
    \A h \in DOMAIN smSessions :
        \A i, j \in DOMAIN smSessions[h].users :
            smSessions[h].users[i].fullKeycode = smSessions[h].users[j].fullKeycode => i = j

\* C17: while the socket whose joinSessionWithKeycode call succeeded for a
\* keycode is still connected, a call with the same keycode from another
\* socket returns the error 'Keycode already in use' (and so leaves
\* webAppConnections[keycode] bound to the first socket).
C17_SecondJoinInUse ==
    \A h \in DOMAIN smSessions :
        \A i \in DOMAIN smSessions[h].webAppConnections :
            LET first == smSessions[h].webAppConnections[i]
            IN (ioState[first.socket] = "CONNECTED" /\ IoSockets \ {first.socket} # {})
               => JoinResult(first.keycode) = JoinFailure("Keycode already in use")

\* A call of joinSessionWithKeycode on its own: nothing else changes.
JoinCall(keycode, socketId) ==
    /\ joinSessionWithKeycode(keycode, socketId)
    /\ UNCHANGED <<relaySide, events, wsState, ioState, now, sweep>>

\* C24: a successful joinSessionWithKeycode sets the session's lastActivity
\* to the current time and records the socket in webAppConnections and
\* webAppSessions; a failed join leaves lastActivity, webAppConnections and
\* webAppSessions unchanged.
C24_JoinRecordsOrLeaves ==
    \A keycode \in SessionCodes, socketId \in IoSockets :
        ioState[socketId] = "CONNECTED"
        => IF JoinResult(keycode).success
           THEN LET h == JoinResult(keycode).sessionId
                IN ~ENABLED (/\ JoinCall(keycode, socketId)
                             /\ ~(/\ smSessions'[h].lastActivity = now
                                  /\ smSessions'[h].webAppConnections
                                        = Append(smSessions[h].webAppConnections,
                                                 [keycode |-> keycode, socket |-> socketId])
                                  /\ MapGet(webAppSessions', socketId) = h))
           ELSE ~ENABLED (/\ JoinCall(keycode, socketId)
                          /\ <<smSessions, webAppSessions>>' # <<smSessions, webAppSessions>>)

\* A socket joined a session after time had passed, so the join moved
\* lastActivity, and a second join with its keycode would fail.
C24_Witness ==
    \E h \in DOMAIN smSessions, socketId \in IoSockets :
        /\ now > 0
        /\ smSessions[h].lastActivity = now
        /\ MapGet(webAppSessions, socketId) = h
        /\ \E i \in DOMAIN smSessions[h].webAppConnections :
              /\ smSessions[h].webAppConnections[i].socket = socketId
              /\ ~JoinResult(smSessions[h].webAppConnections[i].keycode).success

C28_ForwardRefreshesActivity ==
    \A socket \in Connected, mouthOpenness \in Openness :
        SocketMouthDataSends(socket, mouthOpenness) # {}
        => MouthDataSessions(socket, mouthOpenness)[getSessionBySocket(socket)].lastActivity = now


\* C36: userSessions[s] = h exactly when a session is stored under h whose
\* lensStudioSocket is s.
C36_UserSessionsMatchSessions ==
    \A s \in LensSockets \cup IoSockets, h \in Hashes :
        (MapGet(userSessions, s) = h)
        <=> (h \in DOMAIN smSessions /\ smSessions[h].lensStudioSocket = s)


\* C37: after a web app socket has disconnected, no webAppConnections entry
\* of a stored session and no webAppSessions entry refers to it.
C37_DisconnectedSocketForgotten ==
    \A socket \in IoSockets :
        ioState[socket] = "DISCONNECTED"
        => /\ socket \notin DOMAIN webAppSessions
           /\ \A h \in DOMAIN smSessions : socket \notin ConnectionSockets(smSessions[h])


\* C38: a stored session has isActive = false exactly when it has no Lens
\* Studio socket and no web app connections.
C38_InactiveIffUnattached ==
    \A h \in DOMAIN smSessions :
        (~smSessions[h].isActive)
        <=> (smSessions[h].lensStudioSocket = Null /\ smSessions[h].webAppConnections = <<>>)
====
